---- MODULE Spec2Model ----
(***************************************************************************)
(* State-machine model of src/a.py: the FastAPI service that ingests a     *)
(* creator's posts from the paginated tikwm listing API into JSON files    *)
(* (users.json, posts.json, saved_user_urls.json), serves the latest/top   *)
(* views and counts plays.                                                 *)
(*                                                                         *)
(* Every handler of a.py is an `async def` without an await: a single      *)
(* server process runs each handler start to finish.  The persisted files  *)
(* are the shared state; HD_URLS is the process-wide dictionary.           *)
(***************************************************************************)
EXTENDS Integers, Sequences, FiniteSets, TLC

VARIABLES
    users,            \* users.json      : username -> [password, avatar, fetched_at]
    posts,            \* posts.json      : ordered object, <<[user, ups]>> in key order
    saved_user_urls,  \* saved_user_urls.json : list of entries, newest first
    saved_urls,       \* saved_urls.json : list of [aweme_id, play_url, hd_url], newest first
    HD_URLS,          \* the global dict  : aweme_id -> hd url
    now,              \* the clock read by now_iso()
    batch,            \* the multi-username request being handled, its local variables
    upstream,         \* what the listing API answers at each cursor
    invites,          \* invites.json    : invite code -> used
    workers,          \* per server process: the /api/view request it is handling
    reply,            \* what the last finished request answered
    acks,             \* history: per aweme_id, the increments that answered 200
    ingested,         \* history: per creator, the now_iso() of its last completed ingestion
    lastRun           \* history: the creator of the last request, when that request was a
                      \* completed single-creator ingestion and the upstream has not changed since

vars == <<users, posts, saved_user_urls, saved_urls, HD_URLS, now, batch, upstream, invites,
          workers, reply, acks, ingested, lastRun>>

\* what only the handlers of the sections "Accounts", "Server processes" and
\* "Saved URLs" touch
side == <<invites, workers, acks, saved_urls>>

----------------------------------------------------------------------------
\* Bounds of the model

\* cursors the upstream hands out are 0..MaxCursor
MaxCursor == 1
\* a short upstream page carries ShortPage items, a long one LongPage items
ShortPage == 1
LongPage == 60
\* the clock stops at MaxTime
MaxTime == 2
\* no post is played more than MaxPlays times
MaxPlays == 2
\* a multi-username request makes at most MaxBatchCalls listing calls per username
MaxBatchCalls == 2
\* the server processes
MaxWorkers == 2
\* the invite codes drawn
MaxInvites == 1
\* the items of a page of the catalog specification
SmallPage == 2

----------------------------------------------------------------------------
\* Program constants

\* while len(all_posts) < 100 / all_posts[:100]
MAX_ITEMS == 100
\* params={"count": 50}
PAGE_COUNT == 50

DEFAULT_AVATAR == "default-avatar"

Creators == {"a", "b"}
\* the server processes that share DATA_DIR
Workers == 1..MaxWorkers
Cursors == 0..MaxCursor

\* the empty dict / the empty JSON object
EmptyDict == [x \in {} |-> x]

----------------------------------------------------------------------------
\* The upstream listing API, https://www.tikwm.com/api/user/posts

\* The video_id of the i-th item of the page the upstream serves for creator q
\* at cursor k.
VideoId(q, k, i) == <<q, k, i>>

\* One answer of the upstream to requests.get(...).json():
\*   kind "raise"  : the call itself fails (ConnectionError, Timeout, bad JSON)
\*   kind "error"  : a document whose msg is not "success"
\*   kind "ok"     : msg = "success", data.videos has n items, data.hasMore, data.cursor
RaiseResp == [kind |-> "raise", n |-> 0, has_more |-> FALSE, cursor |-> 0]
ErrorResp == [kind |-> "error", n |-> 0, has_more |-> FALSE, cursor |-> 0]
LastPage(n) == [kind |-> "ok", n |-> n, has_more |-> FALSE, cursor |-> 0]
MorePage(n, c) == [kind |-> "ok", n |-> n, has_more |-> TRUE, cursor |-> c]

Responses(lens) ==
    {RaiseResp, ErrorResp, LastPage(0)}
        \cup {LastPage(n) : n \in lens}
        \cup {MorePage(n, c) : n \in lens, c \in Cursors}

\* What the upstream answers at each cursor, to a request for any creator.
Fixtures(lens) == [Cursors -> Responses(lens)]

\* resp.get("data", {}).get("videos", []) of the page for creator q at cursor k
Videos(q, k, resp) == [i \in 1..resp.n |-> [video_id |-> VideoId(q, k, i)]]

\* the identifiers the model's view and download requests name: the first two
\* posts of each creator's first page
PlayedIds == {VideoId(q, 0, i) : q \in Creators, i \in 1..2}

\* no completed ingestion yet
Never == -1

\* a server process that handles no /api/view request
WorkerIdle ==
    [pc |-> "idle", video_id |-> VideoId("-", 0, 0), posts |-> <<>>, q |-> "-",
     users |-> EmptyDict]

----------------------------------------------------------------------------
\* Derived URL templates

PlayUrl(vid) == <<"https://www.tikwm.com/video/media/play/", vid, ".mp4">>
HdUrl(vid) == <<"https://www.tikwm.com/video/media/hdplay/", vid, ".mp4">>

----------------------------------------------------------------------------
\* posts.json as an ordered object

PostsKeys(ps) == {ps[i].user : i \in 1..Len(ps)}
PostsIndex(ps, u) == CHOOSE i \in 1..Len(ps) : ps[i].user = u
\* posts.get(u, [])
PostsGet(ps, u) == IF u \in PostsKeys(ps) THEN ps[PostsIndex(ps, u)].ups ELSE <<>>
\* posts[u] = ups : an existing key keeps its place, a new key goes last
PostsSet(ps, u, ups) ==
    IF u \in PostsKeys(ps)
    THEN [ps EXCEPT ![PostsIndex(ps, u)].ups = ups]
    ELSE Append(ps, [user |-> u, ups |-> ups])

----------------------------------------------------------------------------
\* index(), single-creator path

\* users[q] = {...} if absent, else users[q]["fetched_at"] = now_iso()
TouchUser(us, u, t) ==
    IF u \notin DOMAIN us
    THEN us @@ (u :> [password |-> "", avatar |-> DEFAULT_AVATAR, fetched_at |-> t])
    ELSE [us EXCEPT ![u].fetched_at = t]

\* one pass of `while len(all_posts) < 100:` over the loop's variables; done is
\* set when the loop is left and why says how: "cap" by the loop condition,
\* "raise" by requests.get(...).json() raising, "error" by msg != "success",
\* "empty" by an empty page, "last" by has_more being false
LoopOffByOne(st) == Len(st.all_posts) <= MAX_ITEMS
LoopCond(st) == Len(st.all_posts) < MAX_ITEMS

LoopPass(q, fx, st) ==
    IF st.done THEN st
    ELSE IF ~LoopCond(st) THEN [st EXCEPT !.done = TRUE, !.why = "cap"]
    ELSE LET resp == fx[st.cursor]
             vids == Videos(q, st.cursor, resp)
             st1 == [st EXCEPT !.calls = @ + 1]
         IN  IF resp.kind = "raise"
             THEN [st1 EXCEPT !.done = TRUE, !.why = "raise"]
             ELSE IF resp.kind # "ok"
             THEN [st1 EXCEPT !.done = TRUE, !.why = "error"]
             ELSE IF vids = <<>>
             THEN [st1 EXCEPT !.done = TRUE, !.why = "empty"]
             ELSE IF ~resp.has_more
             THEN [st1 EXCEPT !.all_posts = @ \o vids, !.done = TRUE, !.why = "last"]
             ELSE [st1 EXCEPT !.all_posts = @ \o vids, !.cursor = resp.cursor]

\* n passes of the loop
RECURSIVE LoopPasses(_, _, _, _)
LoopPasses(q, fx, st, n) ==
    IF n = 0 THEN st
    ELSE IF n = 1 THEN LoopPass(q, fx, st)
    ELSE LET half == LoopPasses(q, fx, st, n \div 2)
         IN  IF half.done THEN half ELSE LoopPasses(q, fx, half, n - (n \div 2))

\* all_posts = []; cursor = 0; the loop run until it is left: a pass that stays
\* in the loop adds at least one item, so MAX_ITEMS + 2 passes leave it
FetchAll(q, fx) ==
    LoopPasses(q, fx,
               [cursor |-> 0, all_posts |-> <<>>, calls |-> 0,
                done |-> FALSE, why |-> ""],
               MAX_ITEMS + 2)

\* all_posts[:100]
TruncNone(all_posts) == all_posts
Truncate(all_posts) ==
    IF Len(all_posts) > MAX_ITEMS THEN SubSeq(all_posts, 1, MAX_ITEMS) ELSE all_posts

\* the dict appended to posts[q] for one raw item
Normalize(v) ==
    [aweme_id |-> v.video_id, play_url |-> PlayUrl(v.video_id), play_count |-> 0]

\* posts[q] = [] before the loop
ResetKeep(ps, q) == PostsGet(ps, q)
ResetCatalog(ps, q) == <<>>

\* for v in all_posts[:100]: posts[q].append({...})
NormalizeIntoFront(ups, all_posts) ==
    LET kept == Truncate(all_posts)
    IN  [i \in 1..Len(kept) |-> Normalize(kept[Len(kept) + 1 - i])] \o ups
NormalizeInto(ups, all_posts) ==
    LET kept == Truncate(all_posts)
    IN  ups \o [i \in 1..Len(kept) |-> Normalize(kept[i])]

\* for v in all_posts[:100]: HD_URLS[vid] = hdplay url
HdPutAll(hd, all_posts) ==
    LET kept == Truncate(all_posts)
        ids == {kept[i].video_id : i \in 1..Len(kept)}
    IN  [v \in DOMAIN hd \cup ids |-> IF v \in ids THEN HdUrl(v) ELSE hd[v]]

IdsOf(ups) == [i \in 1..Len(ups) |-> ups[i].aweme_id]

\* what a finished request answered: the handler, its q, the HTTP status, the
\* listing calls it made, the content id the request named (id) and the values
\* of the JSON body in key order (body); for a multi-username request, history
\* of whether it met an entry already saved (skipped) and, when it raised, of
\* the list it held in memory (held); for /api/from-url, history of the path
\* its URL resolved to (path) and of how the gallery call went, when it was
\* made (aux)
Reply(op, who, status, calls) ==
    [op |-> op, who |-> who, status |-> status, calls |-> calls,
     id |-> <<>>, body |-> <<>>, skipped |-> FALSE, held |-> <<>>, path |-> <<>>,
     aux |-> "-"]

\* no multi-username request is being handled: the process runs one handler at a
\* time; skipped and touched (the usernames created or touched so far) are history
BatchIdle ==
    [pc |-> "idle", usernames |-> <<>>, users |-> EmptyDict, saved |-> <<>>,
     all_posts |-> <<>>, cursor |-> 0, calls |-> 0, skipped |-> FALSE, touched |-> {}]
Idle == batch.pc = "idle"

NoRun == [q |-> "-", n |-> 0]
\* one more completed ingestion of q in succession (counted up to 2)
NextRun(q) == [q |-> q, n |-> IF lastRun.q = q /\ lastRun.n >= 1 THEN 2 ELSE 1]

\* GET /?q=<one username>: the handler returns the page
IngestOk(q) ==
    LET r == FetchAll(q, upstream)
    IN  /\ Idle
        /\ r.why # "raise"
        /\ users' = TouchUser(users, q, now)
        /\ posts' = PostsSet(posts, q, NormalizeInto(ResetCatalog(posts, q), r.all_posts))
        /\ HD_URLS' = HdPutAll(HD_URLS, r.all_posts)
        /\ reply' = Reply("index", q, 200, r.calls)
        /\ lastRun' = NextRun(q)
        /\ ingested' = [ingested EXCEPT ![q] = now]
        /\ UNCHANGED <<side, saved_user_urls, now, batch, upstream>>

\* GET /?q=<one username>: requests.get raises inside the loop, the exception
\* leaves the handler (500) before save_posts and save_users
IngestRaise(q) ==
    LET r == FetchAll(q, upstream)
    IN  /\ Idle
        /\ r.why = "raise"
        /\ reply' = Reply("index", q, 500, r.calls)
        /\ lastRun' = NoRun
        /\ UNCHANGED <<side, ingested, users, posts, saved_user_urls, HD_URLS, now, batch, upstream>>

Ingest(q) == IngestOk(q) \/ IngestRaise(q)

----------------------------------------------------------------------------
\* POST /api/view/{video_id}

FoundIn(ps, vid) ==
    \E i \in 1..Len(ps) : \E j \in 1..Len(ps[i].ups) : ps[i].ups[j].aweme_id = vid

\* the first creator, in key order, whose list holds vid, and the first such post
FirstUser(ps, vid) ==
    CHOOSE i \in 1..Len(ps) :
        /\ \E j \in 1..Len(ps[i].ups) : ps[i].ups[j].aweme_id = vid
        /\ \A i2 \in 1..(i - 1) : \A j \in 1..Len(ps[i2].ups) : ps[i2].ups[j].aweme_id # vid
FirstPost(ups, vid) ==
    CHOOSE j \in 1..Len(ups) :
        /\ ups[j].aweme_id = vid
        /\ \A j2 \in 1..(j - 1) : ups[j2].aweme_id # vid

\* p["play_count"] = p.get("play_count", 0) + 1 on the post found
BumpEvery(ps, vid) ==
    LET i == FirstUser(ps, vid)
    IN  [ps EXCEPT ![i].ups = [j \in 1..Len(@) |-> [@[j] EXCEPT !.play_count = @ + 1]]]
BumpTwice(ps, vid) ==
    LET i == FirstUser(ps, vid)
        j == FirstPost(ps[i].ups, vid)
    IN  [ps EXCEPT ![i].ups[j].play_count = @ + 2]
Bump(ps, vid) ==
    LET i == FirstUser(ps, vid)
        j == FirstPost(ps[i].ups, vid)
    IN  [ps EXCEPT ![i].ups[j].play_count = @ + 1]

CountOf(ps, vid) ==
    LET i == FirstUser(ps, vid)
    IN  ps[i].ups[FirstPost(ps[i].ups, vid)].play_count

\* the bound on plays: a post that is found has been played less than MaxPlays times
PlaysBelowCap(vid) == FoundIn(posts, vid) => CountOf(posts, vid) < MaxPlays

ApiView(vid) ==
    /\ Idle
    /\ IF FoundIn(posts, vid)
       THEN /\ posts' = Bump(posts, vid)
            /\ reply' = [Reply("view", "-", 200, 0) EXCEPT
                             !.id = vid, !.body = <<CountOf(Bump(posts, vid), vid)>>]
       ELSE /\ reply' = [Reply("view", "-", 404, 0) EXCEPT !.id = vid]
            /\ UNCHANGED posts
    /\ lastRun' = NoRun
    /\ UNCHANGED <<side, ingested, users, saved_user_urls, HD_URLS, now, batch, upstream>>

----------------------------------------------------------------------------
\* GET /api/top?limit=..

\* max(ups, key=lambda p: p.get("play_count", 0)) on a non-empty list: the
\* first post of the largest play count
MaxPostLast(ups) ==
    LET counts == {ups[j].play_count : j \in 1..Len(ups)}
        most == CHOOSE c \in counts : \A c2 \in counts : c2 <= c
    IN  ups[CHOOSE j \in 1..Len(ups) :
                /\ ups[j].play_count = most
                /\ \A j2 \in (j + 1)..Len(ups) : ups[j2].play_count # most]
MaxPost(ups) ==
    LET counts == {ups[j].play_count : j \in 1..Len(ups)}
        most == CHOOSE c \in counts : \A c2 \in counts : c2 <= c
    IN  ups[CHOOSE j \in 1..Len(ups) :
                /\ ups[j].play_count = most
                /\ \A j2 \in 1..(j - 1) : ups[j2].play_count # most]

\* for ups in posts.values(): if ups: top.append(max(...))
RECURSIVE TopOfEach(_)
TopOfEach(ps) ==
    IF ps = <<>> THEN <<>>
    ELSE (IF Head(ps).ups # <<>> THEN <<MaxPost(Head(ps).ups)>> ELSE <<>>)
             \o TopOfEach(Tail(ps))

\* sorted(top, key=play_count, reverse=True): the sort is stable, posts of
\* equal play count keep the order they had
InsertDesc(sorted, p) ==
    LET k == Cardinality({i \in 1..Len(sorted) : sorted[i].play_count >= p.play_count})
    IN  SubSeq(sorted, 1, k) \o <<p>> \o SubSeq(sorted, k + 1, Len(sorted))
RECURSIVE SortedDesc(_)
SortedDesc(s) ==
    IF s = <<>> THEN <<>>
    ELSE InsertDesc(SortedDesc(SubSeq(s, 1, Len(s) - 1)), s[Len(s)])

\* s[:limit]; a negative limit counts from the end
Slice(s, limit) ==
    IF limit >= 0
    THEN SubSeq(s, 1, IF limit < Len(s) THEN limit ELSE Len(s))
    ELSE SubSeq(s, 1, IF Len(s) + limit > 0 THEN Len(s) + limit ELSE 0)

\* next(u for u, ups in posts.items() if pc in ups)
OwnerOf(ps, pc) ==
    ps[CHOOSE i \in 1..Len(ps) :
           /\ \E j \in 1..Len(ps[i].ups) : ps[i].ups[j] = pc
           /\ \A i2 \in 1..(i - 1) : \A j \in 1..Len(ps[i2].ups) : ps[i2].ups[j] # pc].user

\* the JSON list the handler returns (the fields the model keeps of a post)
ApiTop(ps, limit) ==
    LET top == Slice(SortedDesc(TopOfEach(ps)), limit)
    IN  [i \in 1..Len(top) |->
            [aweme_id |-> top[i].aweme_id, play_url |-> top[i].play_url,
             username |-> OwnerOf(ps, top[i]), play_count |-> top[i].play_count]]

----------------------------------------------------------------------------
\* GET /api/latest

\* HD_URLS.get(aweme_id, ""), the empty string written <<>>
HdGet(hd, vid) == IF vid \in DOMAIN hd THEN hd[vid] ELSE <<>>

\* p = ups[0]
LastOf(ups) == ups[Len(ups)]
FirstOf(ups) == ups[1]

\* for user, ups in posts.items(): if ups: result.append({...}); the JSON list
\* returned (the fields the model keeps of a post)
RECURSIVE ApiLatest(_, _)
ApiLatest(ps, hd) ==
    IF ps = <<>> THEN <<>>
    ELSE (IF Head(ps).ups # <<>>
          THEN <<[aweme_id |-> FirstOf(Head(ps).ups).aweme_id,
                  play_url |-> FirstOf(Head(ps).ups).play_url,
                  hd_url |-> HdGet(hd, FirstOf(Head(ps).ups).aweme_id),
                  username |-> Head(ps).user]>>
          ELSE <<>>) \o ApiLatest(Tail(ps), hd)

----------------------------------------------------------------------------
\* index(), the list of videos of the page

\* type: str = Query(None, regex="^(latest|top)?$"), None written ""
IndexTypes == {"", "latest", "top"}
\* sorted(...)[:50]
TOP_LIMIT == 50

\* for ups in posts.values(): if ups: videos.append(ups[0])
RECURSIVE LatestOfEach(_)
LatestOfEach(ps) ==
    IF ps = <<>> THEN <<>>
    ELSE (IF Head(ps).ups # <<>> THEN <<FirstOf(Head(ps).ups)>> ELSE <<>>)
             \o LatestOfEach(Tail(ps))

\* videos of a request that names q
IndexVideos(ps, q, type) ==
    IF type = "latest" THEN LatestOfEach(ps)
    ELSE IF type = "top" THEN Slice(SortedDesc(TopOfEach(ps)), TOP_LIMIT)
    ELSE PostsGet(ps, q)

\* GET /?q=<one username>&type=<type>: the ingestion, then the page with the
\* videos of the view asked for (body), type kept in aux
IndexOk(q, type) ==
    LET r == FetchAll(q, upstream)
        stored == PostsSet(posts, q, NormalizeInto(ResetCatalog(posts, q), r.all_posts))
    IN  /\ Idle
        /\ r.why # "raise"
        /\ users' = TouchUser(users, q, now)
        /\ posts' = stored
        /\ HD_URLS' = HdPutAll(HD_URLS, r.all_posts)
        /\ reply' = [Reply("index", q, 200, r.calls) EXCEPT
                         !.aux = type, !.body = IndexVideos(stored, q, type)]
        /\ lastRun' = NextRun(q)
        /\ ingested' = [ingested EXCEPT ![q] = now]
        /\ UNCHANGED <<side, saved_user_urls, now, batch, upstream>>

----------------------------------------------------------------------------
\* GET /download?video_id=..&hd=..

\* what the CDN answers to requests.get(url, stream=True): a status, or the
\* call raises (CdnRaises)
CdnRaises == "raise"
CdnAnswers == {"200", "403", CdnRaises}

\* url = HD_URLS.get(video_id) if hd else found["play_url"]
DownloadUrl(vid, hd) ==
    IF hd
    THEN (IF vid \in DOMAIN HD_URLS THEN HD_URLS[vid] ELSE <<>>)
    ELSE PostsGet(posts, posts[FirstUser(posts, vid)].user)[
             FirstPost(posts[FirstUser(posts, vid)].ups, vid)].play_url

\* the handler: 404 when no catalog holds the post; requests.get raises on a
\* missing url (None) and on a network failure (500); a CDN status other than
\* 200 is passed on; otherwise the play is counted and posts.json saved
Download(vid, hd, cdn) ==
    /\ Idle
    /\ IF ~FoundIn(posts, vid)
       THEN /\ reply' = Reply("download", "-", 404, 0)
            /\ UNCHANGED posts
       ELSE IF DownloadUrl(vid, hd) = <<>> \/ cdn = CdnRaises
       THEN /\ reply' = Reply("download", "-", 500, 0)
            /\ UNCHANGED posts
       ELSE IF cdn # "200"
       THEN /\ reply' = Reply("download", "-", 403, 0)
            /\ UNCHANGED posts
       ELSE /\ posts' = Bump(posts, vid)
            /\ reply' = Reply("download", "-", 200, 0)
    /\ lastRun' = NoRun
    /\ UNCHANGED <<side, ingested, users, saved_user_urls, HD_URLS, now, batch, upstream>>

----------------------------------------------------------------------------
\* POST /api/from-url

\* a path segment is a content id; Seg(s) is the segment spelled s, which is
\* the id of no catalogued post
Seg(s) == <<s, 0, 0>>
VIDEO == Seg("video")

\* parts = [p for p in urlparse(final).path.split("/") if p], path being the
\* list path.split("/") gives
Parts(path) == SelectSeq(path, LAMBDA p : p # Seg(""))

\* aweme_id = None
NoId == <<>>

\* for i, p in enumerate(parts): if p == "video" and i + 1 < len(parts):
\*     aweme_id = parts[i + 1]; break
AwemeIdLast(parts) ==
    LET hits == {i \in 1..Len(parts) : parts[i] = VIDEO /\ i + 1 <= Len(parts)}
    IN  IF hits = {} THEN NoId
        ELSE parts[(CHOOSE i \in hits : \A i2 \in hits : i2 <= i) + 1]
AwemeIdOf(parts) ==
    LET hits == {i \in 1..Len(parts) : parts[i] = VIDEO /\ i + 1 <= Len(parts)}
    IN  IF hits = {} THEN NoId
        ELSE parts[(CHOOSE i \in hits : \A i2 \in hits : i <= i2) + 1]

\* what the call to https://www.tikwm.com/api/?url=..&hd=1 gives: it raises
\* (also .json() and .get raising), or info["data"]["images"], [] when missing
AuxRaises == [kind |-> "raise", images |-> <<>>]
AuxAnswers == {AuxRaises, [kind |-> "ok", images |-> <<>>], [kind |-> "ok", images |-> <<"1.jpg">>]}

\* HD_URLS[aweme_id] = hd_url
HdPutNone(hd, vid) == hd
HdPut(hd, vid) == [v \in DOMAIN hd \cup {vid} |-> IF v = vid THEN HdUrl(vid) ELSE hd[v]]

\* the handler: resolved says whether requests.get(payload.url) returned (path
\* is then the path of r.url); 400 when it raised, 400 when the path holds no
\* identifier; otherwise the link is registered and the body returned
FromUrl(resolved, path, aux) ==
    LET aweme_id == AwemeIdOf(Parts(path))
        images == IF aux.kind = "raise" THEN <<>> ELSE aux.images
    IN  /\ Idle
        /\ IF ~resolved
           THEN /\ reply' = [Reply("from_url", "-", 400, 0) EXCEPT
                                 !.body = <<"Failed to resolve URL">>]
                /\ UNCHANGED HD_URLS
           ELSE IF aweme_id = NoId
           THEN /\ reply' = [Reply("from_url", "-", 400, 0) EXCEPT
                                 !.path = path,
                                 !.body = <<"Could not extract video ID from URL">>]
                /\ UNCHANGED HD_URLS
           ELSE /\ HD_URLS' = HdPut(HD_URLS, aweme_id)
                /\ reply' = [Reply("from_url", "-", 200, 0) EXCEPT
                                 !.id = aweme_id, !.path = path, !.aux = aux.kind,
                                 !.body = <<aweme_id, PlayUrl(aweme_id), HdUrl(aweme_id), images>>]
        /\ lastRun' = NoRun
        /\ UNCHANGED <<side, ingested, users, posts, saved_user_urls, now, batch, upstream>>

----------------------------------------------------------------------------
\* Saved URLs: POST /api/saved-urls, DELETE /api/saved-urls/{aweme_id}

\* not any(u["aweme_id"] == url_data.aweme_id for u in saved)
SavedUrlAbsentAlways(saved, vid) == TRUE
SavedUrlAbsent(saved, vid) == ~\E i \in 1..Len(saved) : saved[i].aweme_id = vid

\* url_data.dict(): the three strings are the client's
SavedUrl(vid, play_url, hd_url) == [aweme_id |-> vid, play_url |-> play_url, hd_url |-> hd_url]

PostSavedUrl(url_data) ==
    /\ Idle
    /\ IF SavedUrlAbsent(saved_urls, url_data.aweme_id)
       THEN saved_urls' = <<url_data>> \o saved_urls
       ELSE UNCHANGED saved_urls
    /\ reply' = [Reply("post_saved_url", "-", 201, 0) EXCEPT !.id = url_data.aweme_id]
    /\ lastRun' = NoRun
    /\ UNCHANGED <<invites, workers, acks, ingested, users, posts, saved_user_urls, HD_URLS, now,
                   batch, upstream>>

DeleteSavedUrl(vid) ==
    /\ Idle
    /\ saved_urls' = SelectSeq(saved_urls, LAMBDA u : u.aweme_id # vid)
    /\ reply' = [Reply("delete_saved_url", "-", 204, 0) EXCEPT !.id = vid]
    /\ lastRun' = NoRun
    /\ UNCHANGED <<invites, workers, acks, ingested, users, posts, saved_user_urls, HD_URLS, now,
                   batch, upstream>>

----------------------------------------------------------------------------
\* index(), multi-username path (len(usernames) > 1), and the
\* /api/saved-user-urls handlers

\* not any(u["username"] == uname and u["aweme_id"] == vid for u in saved)
AbsentAlways(saved, uname, vid) == TRUE
Absent(saved, uname, vid) ==
    ~\E i \in 1..Len(saved) : saved[i].username = uname /\ saved[i].aweme_id = vid

Entry(uname, vid) ==
    [username |-> uname, aweme_id |-> vid, play_url |-> PlayUrl(vid), hd_url |-> HdUrl(vid)]

\* for v in all_posts: insert the entry at the front if it is absent
\* (a long list is merged half by half, the first half before the second, which
\* is the same loop)
RECURSIVE MergeEntriesCapped(_, _, _)
MergeEntriesCapped(saved, uname, all_posts) ==
    IF all_posts = <<>> THEN saved
    ELSE IF Len(all_posts) = 1
    THEN LET vid == Head(all_posts).video_id
         IN  IF Absent(saved, uname, vid) /\ Len(saved) < MAX_ITEMS
             THEN <<Entry(uname, vid)>> \o saved
             ELSE saved
    ELSE LET half == Len(all_posts) \div 2
             first == MergeEntriesCapped(saved, uname, SubSeq(all_posts, 1, half))
         IN  IF Len(first) >= 0
             THEN MergeEntriesCapped(first, uname, SubSeq(all_posts, half + 1, Len(all_posts)))
             ELSE first
RECURSIVE MergeEntries(_, _, _)
MergeEntries(saved, uname, all_posts) ==
    IF all_posts = <<>> THEN saved
    ELSE IF Len(all_posts) = 1
    THEN LET vid == Head(all_posts).video_id
         IN  IF Absent(saved, uname, vid)
             THEN <<Entry(uname, vid)>> \o saved
             ELSE saved
    ELSE LET half == Len(all_posts) \div 2
             first == MergeEntries(saved, uname, SubSeq(all_posts, 1, half))
         IN  IF Len(first) >= 0
             THEN MergeEntries(first, uname, SubSeq(all_posts, half + 1, Len(all_posts)))
             ELSE first

\* whether the loop finds an item of all_posts already saved
RECURSIVE MeetsSaved(_, _, _)
MeetsSaved(saved, uname, all_posts) ==
    IF all_posts = <<>> THEN FALSE
    ELSE IF Len(all_posts) = 1
    THEN ~Absent(saved, uname, Head(all_posts).video_id)
    ELSE LET half == Len(all_posts) \div 2
             first == SubSeq(all_posts, 1, half)
         IN  \/ MeetsSaved(saved, uname, first)
             \/ MeetsSaved(MergeEntries(saved, uname, first), uname,
                           SubSeq(all_posts, half + 1, Len(all_posts)))

\* if len(usernames) > 1: usernames being the non-empty names of q.split(",")
TakesBatchPathAny(usernames) == Len(usernames) >= 1
TakesBatchPath(usernames) == Len(usernames) > 1

\* GET /?q=u1,u2,...: load_users, load_saved_user_urls, and the first username
\* is created or touched; the handler then waits on its first listing call
BatchStart(usernames) ==
    /\ Idle
    /\ TakesBatchPath(usernames)
    /\ batch' = [pc |-> "fetch", usernames |-> usernames,
                 users |-> TouchUser(users, Head(usernames), now),
                 saved |-> saved_user_urls,
                 all_posts |-> <<>>, cursor |-> 0, calls |-> 0, skipped |-> FALSE,
                 touched |-> {Head(usernames)}]
    /\ lastRun' = NoRun
    /\ UNCHANGED <<side, ingested, users, posts, saved_user_urls, HD_URLS, now, upstream, reply>>

\* the listing call raises: the exception leaves the handler before
\* save_users and save_saved_user_urls
BatchRaise ==
    /\ batch.pc = "fetch"
    /\ upstream[batch.cursor].kind = "raise"
    /\ reply' = [Reply("batch", "-", 500, 0) EXCEPT !.held = batch.saved]
    /\ batch' = BatchIdle
    /\ UNCHANGED <<side, ingested, users, posts, saved_user_urls, HD_URLS, now, upstream, lastRun>>

\* a page with has_more: all_posts.extend(vids), cursor = data.cursor, loop again
BatchMore ==
    LET resp == upstream[batch.cursor]
        uname == Head(batch.usernames)
    IN  /\ batch.pc = "fetch"
        /\ batch.calls + 1 < MaxBatchCalls
        /\ resp.kind = "ok" /\ resp.n > 0 /\ resp.has_more
        /\ batch' = [batch EXCEPT !.all_posts = @ \o Videos(uname, batch.cursor, resp),
                                  !.cursor = resp.cursor,
                                  !.calls = @ + 1]
        /\ UNCHANGED <<side, ingested, users, posts, saved_user_urls, HD_URLS, now, upstream, reply, lastRun>>

\* the page that leaves the loop (msg != success, no videos, or has_more false):
\* the username's items are merged into the list held in memory; then the next
\* username is created or touched, or, after the last one, both files are saved
BatchBreak ==
    LET resp == upstream[batch.cursor]
        uname == Head(batch.usernames)
        all_posts == IF resp.kind = "ok"
                     THEN batch.all_posts \o Videos(uname, batch.cursor, resp)
                     ELSE batch.all_posts
        saved == MergeEntries(batch.saved, uname, all_posts)
        skipped == batch.skipped \/ MeetsSaved(batch.saved, uname, all_posts)
        rest == Tail(batch.usernames)
    IN  /\ batch.pc = "fetch"
        /\ resp.kind = "error" \/ (resp.kind = "ok" /\ (resp.n = 0 \/ ~resp.has_more))
        /\ IF rest # <<>>
           THEN /\ batch' = [batch EXCEPT !.usernames = rest,
                                          !.users = TouchUser(@, Head(rest), now),
                                          !.saved = saved,
                                          !.all_posts = <<>>, !.cursor = 0, !.calls = 0,
                                          !.skipped = skipped,
                                          !.touched = @ \cup {Head(rest)}]
                /\ UNCHANGED <<ingested, users, saved_user_urls, reply>>
           ELSE /\ users' = batch.users
                /\ ingested' = [u \in Creators |->
                                   IF u \in batch.touched
                                   THEN batch.users[u].fetched_at ELSE ingested[u]]
                /\ saved_user_urls' = saved
                /\ reply' = [Reply("batch", "-", 200, 0) EXCEPT !.skipped = skipped]
                /\ batch' = BatchIdle
        /\ UNCHANGED <<side, posts, HD_URLS, now, upstream, lastRun>>

\* POST /api/saved-user-urls
PostSavedUserUrl(username, vid) ==
    /\ Idle
    /\ IF Absent(saved_user_urls, username, vid)
       THEN saved_user_urls' = <<Entry(username, vid)>> \o saved_user_urls
       ELSE UNCHANGED saved_user_urls
    /\ reply' = Reply("post_saved_user_url", "-", 201, 0)
    /\ lastRun' = NoRun
    /\ UNCHANGED <<side, ingested, users, posts, HD_URLS, now, batch, upstream>>

\* the listing API changes what it serves
UpstreamChange(fx) ==
    /\ upstream' = fx
    /\ upstream' # upstream
    /\ lastRun' = NoRun
    /\ UNCHANGED <<side, ingested, users, posts, saved_user_urls, HD_URLS, now, batch, reply>>

\* time passes
Tick ==
    /\ now < MaxTime
    /\ now' = now + 1
    /\ UNCHANGED <<side, ingested, users, posts, saved_user_urls, HD_URLS, batch, upstream,
                   reply, lastRun>>

----------------------------------------------------------------------------
\* Accounts: /api/invite-code, /api/register, /api/saved-users, /api/users

\* POST /api/invite-code: a fresh token (the tokens are numbered in the order
\* they are drawn)
GenerateInviteCode ==
    /\ Idle
    /\ Cardinality(DOMAIN invites) < MaxInvites
    /\ invites' = invites @@ ((Cardinality(DOMAIN invites) + 1) :> FALSE)
    /\ reply' = Reply("invite_code", "-", 201, 0)
    /\ lastRun' = NoRun
    /\ UNCHANGED <<workers, acks, saved_urls, ingested, users, posts, saved_user_urls, HD_URLS, now,
                   batch, upstream>>

\* pwd_context.hash(data.password)
Hashed == "bcrypt"

\* POST /api/register
Register(username, code) ==
    /\ Idle
    /\ IF code \notin DOMAIN invites \/ invites[code]
       THEN /\ reply' = Reply("register", username, 400, 0)
            /\ UNCHANGED <<invites, users>>
       ELSE /\ invites' = [invites EXCEPT ![code] = TRUE]
            /\ IF username \in DOMAIN users /\ users[username].password # ""
               THEN /\ reply' = Reply("register", username, 400, 0)
                    /\ UNCHANGED users
               ELSE /\ users' = [u \in DOMAIN users \cup {username} |->
                                    IF u = username
                                    THEN [password |-> Hashed, avatar |-> DEFAULT_AVATAR,
                                          fetched_at |-> now]
                                    ELSE users[u]]
                    /\ reply' = Reply("register", username, 201, 0)
    /\ lastRun' = NoRun
    /\ UNCHANGED <<workers, acks, saved_urls, ingested, posts, saved_user_urls, HD_URLS, now, batch,
                   upstream>>

\* POST /api/saved-users
PostSavedUser(username) ==
    /\ Idle
    /\ IF username \notin DOMAIN users
       THEN users' = users @@ (username :> [password |-> "", avatar |-> DEFAULT_AVATAR,
                                            fetched_at |-> now])
       ELSE UNCHANGED users
    /\ reply' = Reply("post_saved_user", username, 201, 0)
    /\ lastRun' = NoRun
    /\ UNCHANGED <<side, ingested, posts, saved_user_urls, HD_URLS, now, batch, upstream>>

\* DELETE /api/users/{username} and DELETE /api/saved-users/{username}
DeleteUser(username) ==
    /\ Idle
    /\ users' = [u \in DOMAIN users \ {username} |-> users[u]]
    /\ reply' = Reply("delete_user", username, 204, 0)
    /\ lastRun' = NoRun
    /\ UNCHANGED <<side, ingested, posts, saved_user_urls, HD_URLS, now, batch, upstream>>

----------------------------------------------------------------------------
\* Server processes: POST /api/view/{video_id} handled by one of several
\* processes that share DATA_DIR.  load_posts (line 467) and save_posts (line
\* 472) are two file operations with no lock between them; each process works
\* on the copy it loaded.

InFlight(vid) == Cardinality({w \in Workers : workers[w].pc = "loaded" /\ workers[w].video_id = vid})

\* posts = load_posts()
WorkerLoad(w, vid) ==
    /\ workers[w].pc = "idle"
    /\ acks[vid] + InFlight(vid) < MaxPlays
    /\ workers' = [workers EXCEPT ![w] = [WorkerIdle EXCEPT !.pc = "loaded", !.video_id = vid,
                                                             !.posts = posts]]
    /\ UNCHANGED <<invites, acks, saved_urls, ingested, users, posts, saved_user_urls, HD_URLS, now, batch,
                   upstream, reply, lastRun>>

\* the search, the increment, save_posts(posts) and the answer
WorkerSave(w) ==
    LET mine == workers[w].posts
        vid == workers[w].video_id
    IN  /\ workers[w].pc = "loaded"
        /\ IF FoundIn(mine, vid)
           THEN /\ posts' = Bump(mine, vid)
                /\ acks' = [acks EXCEPT ![vid] = @ + 1]
                /\ reply' = [Reply("view", "-", 200, 0) EXCEPT
                                 !.id = vid, !.body = <<CountOf(Bump(mine, vid), vid)>>]
           ELSE /\ reply' = [Reply("view", "-", 404, 0) EXCEPT !.id = vid]
                /\ UNCHANGED <<posts, acks>>
        /\ workers' = [workers EXCEPT ![w] = WorkerIdle]
        /\ lastRun' = NoRun
        /\ UNCHANGED <<invites, saved_urls, ingested, users, saved_user_urls, HD_URLS, now, batch, upstream>>

\* GET /?q=<one username> handled by a server process: users = load_users()
\* and posts = load_posts() (lines 158-159) come first
WorkerIngestLoad(w, q) ==
    /\ workers[w].pc = "idle"
    /\ workers' = [workers EXCEPT ![w] = [WorkerIdle EXCEPT !.pc = "ingesting", !.q = q,
                                                             !.posts = posts, !.users = users]]
    /\ UNCHANGED <<invites, acks, saved_urls, ingested, users, posts, saved_user_urls, HD_URLS, now,
                   batch, upstream, reply, lastRun>>

\* the rest of the handler on the copies it loaded: the record of q, the
\* listing calls, then save_posts(posts) and save_users(users)
WorkerIngestSave(w) ==
    LET q == workers[w].q
        mine == workers[w].posts
        r == FetchAll(q, upstream)
    IN  /\ workers[w].pc = "ingesting"
        /\ IF r.why = "raise"
           THEN /\ reply' = Reply("index", q, 500, r.calls)
                /\ UNCHANGED <<users, posts, HD_URLS, ingested>>
           ELSE /\ users' = TouchUser(workers[w].users, q, now)
                /\ posts' = PostsSet(mine, q, NormalizeInto(ResetCatalog(mine, q), r.all_posts))
                /\ HD_URLS' = HdPutAll(HD_URLS, r.all_posts)
                /\ ingested' = [ingested EXCEPT ![q] = now]
                /\ reply' = Reply("index", q, 200, r.calls)
        /\ workers' = [workers EXCEPT ![w] = WorkerIdle]
        /\ lastRun' = NoRun
        /\ UNCHANGED <<invites, acks, saved_urls, saved_user_urls, now, batch, upstream>>

----------------------------------------------------------------------------
\* The server process stops and starts again: the files of DATA_DIR stay, the
\* module is loaded anew with HD_URLS = {}
Restart ==
    /\ Idle
    /\ HD_URLS' = EmptyDict
    /\ reply' = Reply("none", "-", 0, 0)
    /\ lastRun' = NoRun
    /\ UNCHANGED <<side, ingested, users, posts, saved_user_urls, now, batch, upstream>>

----------------------------------------------------------------------------
\* Initial state: DATA_DIR holds no file yet, HD_URLS = {}

Fresh ==
    /\ users = EmptyDict
    /\ posts = <<>>
    /\ saved_user_urls = <<>>
    /\ saved_urls = <<>>
    /\ HD_URLS = EmptyDict
    /\ now = 0
    /\ batch = BatchIdle
    /\ invites = EmptyDict
    /\ workers = [w \in Workers |-> WorkerIdle]
    /\ reply = Reply("none", "-", 0, 0)
    /\ acks = [vid \in PlayedIds |-> 0]
    /\ ingested = [u \in Creators |-> Never]
    /\ lastRun = NoRun

----------------------------------------------------------------------------
\* SpecFetch: single-creator ingestion and plays, against each upstream of
\* FetchFixtures (short and long pages, every flag and cursor at each cursor).

FetchFixtures == Fixtures({ShortPage, LongPage})
FetchViewIds == {VideoId(q, 0, 1) : q \in Creators}

InitFetch == Fresh /\ upstream \in FetchFixtures

FetchIngest == \E q \in Creators : Ingest(q)
FetchView == \E vid \in FetchViewIds : PlaysBelowCap(vid) /\ ApiView(vid)

NextFetch == FetchIngest \/ FetchView

SpecFetch == InitFetch /\ [][NextFetch]_vars

----------------------------------------------------------------------------
\* SpecBatch: multi-username requests and POST /api/saved-user-urls, while the
\* upstream changes what it serves among BatchFixtures (pages of at most
\* ShortPage items).

BatchResponses == {RaiseResp, ErrorResp, LastPage(ShortPage), MorePage(ShortPage, MaxCursor)}
BatchFixtures == [Cursors -> BatchResponses]
BatchQueries == {<<"a", "b">>, <<"b", "b">>}
BatchPosted == {<<"a", VideoId("a", 0, 1)>>}

InitBatch == Fresh /\ upstream \in BatchFixtures

BatchRequest == \E usernames \in BatchQueries : BatchStart(usernames)
BatchPost == \E e \in BatchPosted : PostSavedUserUrl(e[1], e[2])
BatchUpstream == \E fx \in BatchFixtures : UpstreamChange(fx)

NextBatch ==
    \/ BatchRequest
    \/ BatchRaise
    \/ BatchMore
    \/ BatchBreak
    \/ BatchPost
    \/ BatchUpstream

SpecBatch == InitBatch /\ [][NextBatch]_vars

----------------------------------------------------------------------------
Entries(saved) == {saved[i] : i \in 1..Len(saved)}
NoDup(saved) ==
    \A i, j \in 1..Len(saved) :
        (saved[i].username = saved[j].username /\ saved[i].aweme_id = saved[j].aweme_id)
            => i = j

\* C5: the persisted Saved-Creator-URL list never holds two entries with the
\* same (username, aweme_id), and no step of a multi-username request or of
\* POST /api/saved-user-urls removes an entry from it.
C5_AppendDedup ==
    /\ NoDup(saved_user_urls)
    /\ [][/\ NoDup(saved_user_urls')
          /\ Entries(saved_user_urls) \subseteq Entries(saved_user_urls')]_vars

\* C5 witness: a multi-username request completed that met an entry already
\* saved, and the list holds several entries
C5_Witness ==
    /\ reply.op = "batch" /\ reply.status = 200 /\ reply.skipped
    /\ Len(saved_user_urls) >= 2

\* C6 as claimed: when a multi-username request fails part-way, the entries it
\* had accumulated for the earlier usernames are in the persisted list.
C6_PartialFailureKeepsEntries ==
    (reply.op = "batch" /\ reply.status = 500) =>
        Entries(reply.held) \subseteq Entries(saved_user_urls)

----------------------------------------------------------------------------
\* Spec: the catalog.  Single-creator and multi-username ingestion, plays and
\* downloads of SpecPlayed, while the upstream changes among SpecFixtures: the
\* call raises, the answer is not a success, one last page, or a has_more page
\* at cursor 0 followed by a last page.

\* a page of SmallPage items with has_more, then a last page of SmallPage items
TwoPages == [k \in Cursors |-> IF k = 0 THEN MorePage(SmallPage, MaxCursor) ELSE LastPage(SmallPage)]
SpecFixtures == {[k \in Cursors |-> RaiseResp], [k \in Cursors |-> ErrorResp], TwoPages}
SpecPlayed == {VideoId(q, 0, 1) : q \in Creators}
\* the lists of usernames of the requests that ask for the multi-username
\* path; the request naming one username does not take it
SpecQueries == {<<"a", "b">>, <<"a">>}
\* the entry a client pins
SpecPinned == {SavedUrl(Seg("7"), PlayUrl(Seg("7")), HdUrl(Seg("7")))}

Init == Fresh /\ upstream \in SpecFixtures

SpecIngest == \E q \in Creators : Ingest(q)
SpecView == \E vid \in SpecPlayed : PlaysBelowCap(vid) /\ ApiView(vid)
SpecDownload ==
    \E vid \in SpecPlayed, hd \in BOOLEAN, cdn \in CdnAnswers :
        PlaysBelowCap(vid) /\ Download(vid, hd, cdn)
SpecBatchRequest == \E usernames \in SpecQueries : BatchStart(usernames)
\* the upstream changes between requests
SpecUpstream == Idle /\ \E fx \in SpecFixtures : UpstreamChange(fx)
SpecSavedPost == \E url_data \in SpecPinned : PostSavedUrl(url_data)

Next ==
    \/ SpecIngest
    \/ SpecView
    \/ SpecDownload
    \/ SpecBatchRequest
    \/ BatchRaise
    \/ BatchMore
    \/ BatchBreak
    \/ SpecUpstream
    \/ SpecSavedPost

Spec == Init /\ [][Next]_vars

----------------------------------------------------------------------------
\* what the last single-creator run fetched, and its catalog
Fetched(q) == FetchAll(q, upstream)
Catalog(q) == PostsGet(posts, q)
Min(x, y) == IF x < y THEN x ELSE y

\* C1: a completed single-creator ingestion leaves at most MAX_ITEMS posts in
\* the creator's catalog: the catalog is the first min(MAX_ITEMS, fetched)
\* items fetched, so a last page that passes the cap is cut.
C1_AtMostMaxItems ==
    \A q \in Creators :
        /\ Len(Catalog(q)) <= MAX_ITEMS
        /\ (reply.op = "index" /\ reply.who = q /\ reply.status = 200) =>
               LET all_posts == Fetched(q).all_posts
                   ups == Catalog(q)
               IN  /\ Len(ups) = Min(Len(all_posts), MAX_ITEMS)
                   /\ \A i \in 1..Len(ups) : ups[i].aweme_id = all_posts[i].video_id

\* C1 witness: a completed ingestion that fetched more than MAX_ITEMS items and
\* stored exactly MAX_ITEMS
C1_Witness ==
    \E q \in Creators :
        /\ reply.op = "index" /\ reply.who = q /\ reply.status = 200
        /\ Len(Fetched(q).all_posts) > MAX_ITEMS
        /\ Len(Catalog(q)) = MAX_ITEMS

\* ceil(max_items / page_size) + 1
CallBound == ((MAX_ITEMS + PAGE_COUNT - 1) \div PAGE_COUNT) + 1

\* C2 as claimed: the single-creator loop makes at most
\* ceil(max_items/page_size) + 1 = 3 upstream calls, whatever the pages.
C2_AtMostThreeCalls == reply.op = "index" => reply.calls <= CallBound

\* every page the upstream serves with has_more set carries at least page_size items
FullPages == \A k \in Cursors : upstream[k].has_more => upstream[k].n >= PAGE_COUNT

\* C2 amended: the loop makes at most MAX_ITEMS upstream calls (one per item
\* when every page is a single item with has_more set), and at most
\* ceil(max_items/page_size) + 1 when every has_more page carries page_size items.
C2_AtMostMaxItemsCalls ==
    reply.op = "index" =>
        /\ reply.calls <= MAX_ITEMS
        /\ FullPages => reply.calls <= CallBound

\* C2 witness: a run of MAX_ITEMS calls over single-item pages
C2_Witness ==
    /\ reply.op = "index" /\ reply.status = 200
    /\ reply.calls = MAX_ITEMS
    /\ ~FullPages

\* C3 as claimed: when a page request fails during pagination, by a non-success
\* status or by the call itself failing, the request still completes and the
\* items accumulated so far are normalized and persisted.
C3_FailedPageKeepsPartial ==
    \A q \in Creators :
        LET run == Fetched(q)
            ups == Catalog(q)
        IN  (reply.op = "index" /\ reply.who = q /\ run.why \in {"raise", "error"}) =>
                /\ reply.status = 200
                /\ Len(ups) = Min(Len(run.all_posts), MAX_ITEMS)
                /\ \A i \in 1..Len(ups) : ups[i].aweme_id = run.all_posts[i].video_id

\* C4: a second run in succession for the same creator against the unchanged
\* upstream leaves the catalog's identifiers as they were, every play count 0.
C4_RerunKeepsIds ==
    [][(lastRun.n >= 1 /\ lastRun'.n = 2 /\ lastRun'.q = lastRun.q) =>
          /\ IdsOf(PostsGet(posts', lastRun.q)) = IdsOf(PostsGet(posts, lastRun.q))
          /\ \A i \in 1..Len(PostsGet(posts', lastRun.q)) :
                 PostsGet(posts', lastRun.q)[i].play_count = 0]_vars

\* C4 witness: two runs in succession stored a non-empty catalog
C4_Witness ==
    /\ lastRun.n = 2
    /\ Len(PostsGet(posts, lastRun.q)) >= 2

----------------------------------------------------------------------------
\* SpecTop: the catalogs /api/top reads, made by ingestions and views while the
\* upstream serves TwoPages or nothing (a creator's catalog may be empty).

TopFixtures == {TwoPages, [k \in Cursors |-> ErrorResp]}
TopPlayed == {VideoId("a", 0, 1), VideoId("a", 0, 2), VideoId("b", 0, 1)}

InitTop == Fresh /\ upstream \in TopFixtures

TopIngest == \E q \in Creators : IngestOk(q)
TopView == \E vid \in TopPlayed : PlaysBelowCap(vid) /\ ApiView(vid)
TopUpstream == \E fx \in TopFixtures : UpstreamChange(fx)

NextTop ==
    \/ TopIngest
    \/ TopView
    \/ TopUpstream

SpecTop == InitTop /\ [][NextTop]_vars

\* the limits asked of /api/top
MaxLimit == 3

NonEmptyCreators == {i \in 1..Len(posts) : posts[i].ups # <<>>}

\* vid names the first post, in storage order, of the largest play count of ups
IsFirstMax(ups, vid) ==
    /\ \E j \in 1..Len(ups) : ups[j].aweme_id = vid
    /\ LET j == FirstPost(ups, vid)
       IN  /\ \A j2 \in 1..Len(ups) : ups[j2].play_count <= ups[j].play_count
           /\ \A j2 \in 1..(j - 1) : ups[j2].play_count < ups[j].play_count

\* C7: for every limit >= 0, /api/top returns min(limit, number of creators
\* with a non-empty catalog) posts, no two of one creator, each its creator's
\* first post of maximum play count, in descending order of play count, no
\* creator left out having more plays than one returned; limit 0 returns the
\* empty list.
C7_TopOnePerCreator ==
    \A limit \in 0..MaxLimit :
        LET t == ApiTop(posts, limit)
        IN  /\ Len(t) = Min(limit, Cardinality(NonEmptyCreators))
            /\ limit = 0 => t = <<>>
            /\ \A i, j \in 1..Len(t) :
                   i < j => /\ t[i].username # t[j].username
                            /\ t[i].play_count >= t[j].play_count
            /\ \A i \in 1..Len(t) :
                   \E c \in NonEmptyCreators :
                       /\ posts[c].user = t[i].username
                       /\ IsFirstMax(posts[c].ups, t[i].aweme_id)
                       /\ t[i].play_count = MaxPost(posts[c].ups).play_count
            /\ \A c \in NonEmptyCreators :
                   (\A i \in 1..Len(t) : t[i].username # posts[c].user) =>
                       \A i \in 1..Len(t) :
                           t[i].play_count >= MaxPost(posts[c].ups).play_count

\* C7 witness: two creators with posts; the most played post of "a" is its
\* second one, it has more plays than the played post of "b", and limit 1
\* returns it alone
C7_Witness ==
    /\ Cardinality(NonEmptyCreators) = 2
    /\ FoundIn(posts, VideoId("a", 0, 1)) /\ CountOf(posts, VideoId("a", 0, 1)) = 1
    /\ FoundIn(posts, VideoId("b", 0, 1)) /\ CountOf(posts, VideoId("b", 0, 1)) = 1
    /\ Len(ApiTop(posts, 1)) = 1
    /\ ApiTop(posts, 1)[1].aweme_id = VideoId("a", 0, 2)
    /\ ApiTop(posts, 1)[1].play_count = 2

----------------------------------------------------------------------------
\* C9 as claimed: over ingestion, batch ingestion, view and download, the play
\* count of a post never decreases: each step leaves it unchanged or raises
\* it by exactly 1, and only a view or a download raises it.
C9_NeverDecreases ==
    [][\A vid \in SpecPlayed :
          (FoundIn(posts, vid) /\ FoundIn(posts', vid)) =>
              \/ CountOf(posts', vid) = CountOf(posts, vid)
              \/ /\ CountOf(posts', vid) = CountOf(posts, vid) + 1
                 /\ reply'.op \in {"view", "download"}]_vars

\* C9 amended: the play count is never negative and is 0 when the post enters
\* a catalog; each step leaves it unchanged, or raises it by exactly 1 (a view
\* or a download that answers 200), or is a completed single-creator
\* ingestion of the post's creator, which replaces the catalog: the count is 0
\* again, or the post is gone.  A step of a multi-username request leaves
\* every catalog as it is.
C9_ResetOnlyByIngestion ==
    [][/\ \A vid \in SpecPlayed :
              LET reingested == /\ reply'.op = "index" /\ reply'.status = 200
                                /\ reply'.who = vid[1]
              IN  /\ FoundIn(posts', vid) => CountOf(posts', vid) >= 0
                  /\ (FoundIn(posts, vid) /\ FoundIn(posts', vid)) =>
                         \/ CountOf(posts', vid) = CountOf(posts, vid)
                         \/ /\ CountOf(posts', vid) = CountOf(posts, vid) + 1
                            /\ reply'.op \in {"view", "download"}
                            /\ reply'.status = 200
                         \/ /\ CountOf(posts', vid) = 0
                            /\ reingested
                  /\ (~FoundIn(posts, vid) /\ FoundIn(posts', vid)) =>
                         CountOf(posts', vid) = 0 /\ reingested
                  /\ (FoundIn(posts, vid) /\ ~FoundIn(posts', vid)) => reingested
       /\ (batch' # batch) => posts' = posts]_vars

\* C9 witness: a completed ingestion of "a" has left its first post at 0 while
\* the first post of "b" keeps the plays counted for it
C9_Witness ==
    /\ reply.op = "index" /\ reply.status = 200 /\ reply.who = "a"
    /\ FoundIn(posts, VideoId("a", 0, 1)) /\ CountOf(posts, VideoId("a", 0, 1)) = 0
    /\ FoundIn(posts, VideoId("b", 0, 1)) /\ CountOf(posts, VideoId("b", 0, 1)) = MaxPlays

----------------------------------------------------------------------------
\* SpecUsers: every handler that writes users.json, with time passing, against
\* an upstream that serves one last page or none.

UsersFixtures == {[k \in Cursors |-> LastPage(ShortPage)], [k \in Cursors |-> ErrorResp]}
UsersQueries == {<<"a", "b">>}
\* the invite codes a registration names: 0 is a code that was never issued
UsersCodes == 0..MaxInvites

InitUsers == Fresh /\ upstream \in UsersFixtures

UsersIngest == \E q \in Creators : IngestOk(q)
UsersBatchRequest == \E usernames \in UsersQueries : BatchStart(usernames)
UsersRegister == \E username \in Creators, code \in UsersCodes : Register(username, code)
UsersPostSaved == \E username \in Creators : PostSavedUser(username)
UsersDelete == \E username \in Creators : DeleteUser(username)

NextUsers ==
    \/ UsersIngest
    \/ UsersBatchRequest
    \/ BatchBreak
    \/ GenerateInviteCode
    \/ UsersRegister
    \/ UsersPostSaved
    \/ UsersDelete
    \/ Tick

SpecUsers == InitUsers /\ [][NextUsers]_vars

\* C10 as claimed: the persisted fetched_at of a creator is the time of the
\* creator's most recent completed ingestion, single or batch; register and
\* POST /api/saved-users do not set it.
C10_FetchedAtIsLastIngestion ==
    \A u \in DOMAIN users : users[u].fetched_at = ingested[u]

----------------------------------------------------------------------------
\* SpecWorkers: /api/view requests handled by MaxWorkers server processes over
\* one DATA_DIR, after both creators were ingested from the upstream TwoPages.

WorkersFixture == TwoPages

InitWorkers ==
    LET ra == FetchAll("a", WorkersFixture)
        rb == FetchAll("b", WorkersFixture)
    IN  /\ users = TouchUser(TouchUser(EmptyDict, "a", 0), "b", 0)
        /\ posts = PostsSet(PostsSet(<<>>, "a", NormalizeInto(<<>>, ra.all_posts)),
                            "b", NormalizeInto(<<>>, rb.all_posts))
        /\ saved_user_urls = <<>>
        /\ saved_urls = <<>>
        /\ HD_URLS = HdPutAll(HdPutAll(EmptyDict, ra.all_posts), rb.all_posts)
        /\ now = 0
        /\ batch = BatchIdle
        /\ upstream = WorkersFixture
        /\ invites = EmptyDict
        /\ workers = [w \in Workers |-> WorkerIdle]
        /\ reply = Reply("index", "b", 200, rb.calls)
        /\ acks = [vid \in PlayedIds |-> 0]
        /\ ingested = [u \in Creators |-> 0]
        /\ lastRun = [q |-> "b", n |-> 1]

WorkersLoad == \E w \in Workers, vid \in SpecPlayed : WorkerLoad(w, vid)
WorkersSave == \E w \in Workers : WorkerSave(w)

NextWorkers ==
    \/ WorkersLoad
    \/ WorkersSave

SpecWorkers == InitWorkers /\ [][NextWorkers]_vars

\* C8 as claimed: whenever no request is in flight, the persisted play count
\* of a post equals the number of increments that reported success, also when
\* the load and save steps of the requests interleave.
C8_NoLostIncrement ==
    (\A w \in Workers : workers[w].pc = "idle") =>
        \A vid \in SpecPlayed :
            FoundIn(posts, vid) /\ CountOf(posts, vid) = acks[vid]

----------------------------------------------------------------------------
\* SpecLinks: what writes HD_URLS and what normalizes content ids: single and
\* multi-username ingestion against the upstream TwoPages, and URL resolution.

LinksQueries == {<<"a", "b">>}
LinksPaths == {<<Seg(""), Seg("@u"), VIDEO, Seg("7")>>, <<Seg(""), VIDEO, VideoId("a", 0, 1)>>,
               <<Seg(""), Seg("@u")>>}

InitLinks == Fresh /\ upstream = TwoPages

LinksIngest == \E q \in Creators : IngestOk(q)
LinksBatchRequest == \E usernames \in LinksQueries : BatchStart(usernames)
LinksFromUrl ==
    \E resolved \in BOOLEAN, path \in LinksPaths, aux \in AuxAnswers :
        FromUrl(resolved, path, aux)

NextLinks ==
    \/ LinksIngest
    \/ LinksBatchRequest
    \/ BatchMore
    \/ BatchBreak
    \/ LinksFromUrl

SpecLinks == InitLinks /\ [][NextLinks]_vars

\* the content ids in the catalogs, and in the Saved-Creator-URL collection
CatalogIds == {posts[i].ups[j].aweme_id : <<i, j>> \in
                  {<<i, j>> \in (1..Len(posts)) \X (1..MAX_ITEMS) : j <= Len(posts[i].ups)}}
SavedUserIds == {saved_user_urls[i].aweme_id : i \in 1..Len(saved_user_urls)}
ResolvedIds == IF reply.op = "from_url" /\ reply.status = 200 THEN {reply.id} ELSE {}

\* C11 as claimed: every content id that a single-creator ingestion, a
\* multi-username ingestion or a URL resolution normalized or resolved has an
\* entry in HD_URLS, the hdplay URL of that id.
C11_EveryIdHasHdLink ==
    \A vid \in CatalogIds \cup SavedUserIds \cup ResolvedIds :
        vid \in DOMAIN HD_URLS /\ HD_URLS[vid] = HdUrl(vid)

----------------------------------------------------------------------------
\* SpecSaved: the Saved-URL collection under its two writers; a client posts
\* an id with the derived URLs or with URLs of its own.

SavedIds == {Seg("7"), Seg("8"), Seg("9")}
SavedPosted ==
    {SavedUrl(vid, play_url, HdUrl(vid)) :
        vid \in SavedIds, play_url \in {PlayUrl(Seg("7")), <<"https://example.com/v.mp4">>}}

InitSaved == Fresh /\ upstream = TwoPages

SavedPost == \E url_data \in SavedPosted : PostSavedUrl(url_data)
SavedDelete == \E vid \in SavedIds : DeleteSavedUrl(vid)

NextSaved ==
    \/ SavedPost
    \/ SavedDelete

SpecSaved == InitSaved /\ [][NextSaved]_vars

\* C12: the Saved-URL collection holds at most one entry per aweme_id; a POST
\* of an aweme_id that is present leaves the collection as it is, content and
\* order; a POST of a new aweme_id puts its entry first, the older entries
\* following in the order they had.
C12_SavedUrlsUniqueNewestFirst ==
    /\ \A i, j \in 1..Len(saved_urls) :
           i # j => saved_urls[i].aweme_id # saved_urls[j].aweme_id
    /\ [][reply'.op = "post_saved_url" =>
              IF \E i \in 1..Len(saved_urls) : saved_urls[i].aweme_id = reply'.id
              THEN saved_urls' = saved_urls
              ELSE /\ Len(saved_urls') = Len(saved_urls) + 1
                   /\ saved_urls'[1].aweme_id = reply'.id
                   /\ Tail(saved_urls') = saved_urls]_vars

\* C12 witness: a POST of an id that was present and not first has left it
\* where it was, among three entries
C12_Witness ==
    /\ reply.op = "post_saved_url"
    /\ Len(saved_urls) = 3
    /\ saved_urls[3].aweme_id = reply.id

----------------------------------------------------------------------------
\* C13 as claimed: no creator's catalog holds two posts of one content id,
\* whatever the upstream serves, also when it serves the same items again
\* because its cursor does not advance.
C13_CatalogIdsUnique ==
    \A q \in Creators :
        Cardinality({Catalog(q)[i].aweme_id : i \in 1..Len(Catalog(q))}) = Len(Catalog(q))

----------------------------------------------------------------------------
\* SpecResolve: URL resolution alone, over every path of at most MaxSegments
\* segments drawn from ResolveSegments.

\* the longest path.split("/") list
MaxSegments == 3
ResolveSegments == {Seg(""), VIDEO, Seg("7"), Seg("8")}
RECURSIVE PathsOf(_)
PathsOf(n) ==
    IF n = 0 THEN {<<>>}
    ELSE PathsOf(n - 1) \cup
         {Append(path, seg) : path \in {p \in PathsOf(n - 1) : Len(p) = n - 1},
                              seg \in ResolveSegments}
ResolvePaths == PathsOf(MaxSegments)

InitResolve == Fresh /\ upstream = TwoPages

\* a URL that resolves to one of the paths, and a URL that does not resolve
ResolveFromUrl == \E path \in ResolvePaths, aux \in AuxAnswers : FromUrl(TRUE, path, aux)
ResolveFails == FromUrl(FALSE, <<>>, AuxRaises)

NextResolve ==
    \/ ResolveFromUrl
    \/ ResolveFails

SpecResolve == InitResolve /\ [][NextResolve]_vars

\* the request's URL resolved: the handler got past requests.get(payload.url)
Resolved == reply.op = "from_url" /\ reply.body # <<"Failed to resolve URL">>

\* C14: for a URL that resolved, the identifier returned is the segment right
\* after the first segment "video" of the path, empty segments ignored; the
\* answer is 400 exactly when no segment "video" is followed by a segment;
\* the URLs returned are the play and hdplay templates of the identifier.
C14_IdFollowsFirstVideo ==
    Resolved =>
        LET parts == Parts(reply.path)
            followed == {i \in 1..Len(parts) : parts[i] = VIDEO /\ i < Len(parts)}
        IN  /\ reply.status = 400 <=> followed = {}
            /\ reply.status # 400 =>
                   /\ reply.status = 200
                   /\ \E i \in 1..Len(parts) :
                          /\ parts[i] = VIDEO
                          /\ \A i2 \in 1..(i - 1) : parts[i2] # VIDEO
                          /\ reply.body[1] = parts[i + 1]
                   /\ reply.body[2] = PlayUrl(reply.body[1])
                   /\ reply.body[3] = HdUrl(reply.body[1])

\* C14 witness: a path with an empty segment and two segments "video", the
\* first followed by the identifier, has resolved to that identifier
C14_Witness ==
    /\ Resolved /\ reply.status = 200
    /\ reply.path = <<VIDEO, Seg("7"), VIDEO>>
    /\ reply.body[1] = Seg("7")

\* C18: a gallery call that fails does not fail the resolution: the answer is
\* 200 with the identifier, both URLs and an empty image list, and HD_URLS
\* holds the identifier's hdplay URL; a resolution that fails (the URL does not
\* resolve, or its path holds no identifier) answers 400 and leaves HD_URLS as
\* it was.
C18_GalleryFailureDegrades ==
    [][reply'.op = "from_url" =>
          /\ reply'.status \in {200, 400}
          /\ reply'.status = 400 => HD_URLS' = HD_URLS /\ reply'.aux = "-"
          /\ reply'.status = 200 =>
                 /\ reply'.id = AwemeIdOf(Parts(reply'.path))
                 /\ reply'.id \in DOMAIN HD_URLS'
                 /\ HD_URLS'[reply'.id] = HdUrl(reply'.id)
                 /\ \A v \in DOMAIN HD_URLS : v \in DOMAIN HD_URLS' /\ (v # reply'.id => HD_URLS'[v] = HD_URLS[v])
          /\ reply'.aux = "raise" =>
                 /\ reply'.status = 200
                 /\ reply'.body = <<reply'.id, PlayUrl(reply'.id), HdUrl(reply'.id), <<>>>>]_vars

\* C18 witness: a resolution whose gallery call raised has answered 200 with
\* no images and registered the link
C18_Witness ==
    /\ reply.op = "from_url" /\ reply.aux = "raise" /\ reply.status = 200
    /\ reply.body[4] = <<>>
    /\ reply.id \in DOMAIN HD_URLS

----------------------------------------------------------------------------
\* a step of POST /api/view/{id}: the request finished in this step names id
ViewStep == reply'.op = "view" /\ batch' = batch /\ upstream' = upstream

\* C15: POST /api/view/{id} for an id in no catalog answers 404 and leaves
\* posts.json as it is; for an id in a catalog it answers 200 with the new
\* count, one post of that id has its play count raised by 1 and every other
\* post, and every catalog, is as before.
C15_ViewBumpsOnePost ==
    [][ViewStep =>
          LET vid == reply'.id
          IN  IF ~FoundIn(posts, vid)
              THEN reply'.status = 404 /\ posts' = posts
              ELSE /\ reply'.status = 200
                   /\ \E i \in 1..Len(posts) : \E j \in 1..Len(posts[i].ups) :
                          /\ posts[i].ups[j].aweme_id = vid
                          /\ posts' = [posts EXCEPT ![i].ups[j].play_count = @ + 1]
                          /\ reply'.body = <<posts[i].ups[j].play_count + 1>>]_vars

\* C15 witness: a view of a post already played, in a catalog of several
\* posts beside another creator's catalog, has answered the count MaxPlays
C15_Witness ==
    /\ reply.op = "view" /\ reply.status = 200
    /\ reply.body = <<MaxPlays>>
    /\ Len(posts) = 2
    /\ FoundIn(posts, reply.id) /\ CountOf(posts, reply.id) = MaxPlays
    /\ Len(posts[FirstUser(posts, reply.id)].ups) > 1

----------------------------------------------------------------------------
\* C16: /api/latest returns one post for each creator whose catalog is not
\* empty, the first of the creator's stored list, and none for a creator whose
\* catalog is empty.
C16_LatestIsFirstStored ==
    LET latest == ApiLatest(posts, HD_URLS)
    IN  /\ Len(latest) = Cardinality(NonEmptyCreators)
        /\ \A c \in NonEmptyCreators :
               \E k \in 1..Len(latest) :
                   /\ latest[k].username = posts[c].user
                   /\ latest[k].aweme_id = posts[c].ups[1].aweme_id
                   /\ latest[k].play_url = posts[c].ups[1].play_url
                   /\ \A k2 \in 1..Len(latest) : latest[k2].username = posts[c].user => k2 = k
        /\ \A k \in 1..Len(latest) :
               \E c \in NonEmptyCreators : posts[c].user = latest[k].username

\* C16 witness: one creator with an empty catalog and one with several posts,
\* /api/latest returning the first post of the second alone
C16_Witness ==
    /\ Len(posts) = 2
    /\ posts[1].ups = <<>> /\ Len(posts[2].ups) > 1
    /\ Len(ApiLatest(posts, HD_URLS)) = 1
    /\ ApiLatest(posts, HD_URLS)[1].username = posts[2].user
    /\ ApiLatest(posts, HD_URLS)[1].aweme_id = VideoId(posts[2].user, 0, 1)

----------------------------------------------------------------------------
\* SpecRestart: ingestions against the upstream TwoPages, downloads, and
\* restarts of the server process.

RestartPlayed == {VideoId(q, 0, 1) : q \in Creators}

InitRestart == Fresh /\ upstream = TwoPages

RestartIngest == \E q \in Creators : IngestOk(q)
RestartDownload ==
    \E vid \in RestartPlayed, hd \in BOOLEAN, cdn \in CdnAnswers :
        PlaysBelowCap(vid) /\ Download(vid, hd, cdn)

NextRestart ==
    \/ RestartIngest
    \/ RestartDownload
    \/ Restart

SpecRestart == InitRestart /\ [][NextRestart]_vars

\* C17 as claimed: also after HD_URLS was emptied by a restart, the HD URL
\* that an HD download requests and the hd_url that /api/latest returns for a
\* catalogued post are the hdplay URL of the post's content id.
C17_CacheSafeToLose ==
    /\ \A vid \in CatalogIds : DownloadUrl(vid, TRUE) = HdUrl(vid)
    /\ \A k \in 1..Len(ApiLatest(posts, HD_URLS)) :
           ApiLatest(posts, HD_URLS)[k].hd_url = HdUrl(ApiLatest(posts, HD_URLS)[k].aweme_id)

----------------------------------------------------------------------------
\* C19: no step of a multi-username request changes a catalog, a play count,
\* saved_urls.json or HD_URLS (it writes users.json and saved_user_urls.json
\* only); the multi-username path is entered with more than one username
\* only, and a single-creator request leaves saved_user_urls.json as it is.
C19_BatchFrame ==
    [][/\ batch' # batch =>
              /\ posts' = posts
              /\ saved_urls' = saved_urls
              /\ HD_URLS' = HD_URLS
       /\ (batch.pc = "idle" /\ batch'.pc # "idle") => Len(batch'.usernames) > 1
       /\ reply'.op = "index" => saved_user_urls' = saved_user_urls]_vars

\* C19 witness: a multi-username request has finished and saved entries, with
\* a played post in a catalog and a pinned URL in place
C19_Witness ==
    /\ reply.op = "batch" /\ reply.status = 200
    /\ saved_user_urls # <<>>
    /\ saved_urls # <<>>
    /\ \E vid \in SpecPlayed : FoundIn(posts, vid) /\ CountOf(posts, vid) >= 1

----------------------------------------------------------------------------
\* SpecInterleave: /api/view requests and single-creator ingestions handled by
\* MaxWorkers server processes over one DATA_DIR, from the state of
\* SpecWorkers.

InterleaveIngestLoad == \E w \in Workers, q \in Creators : WorkerIngestLoad(w, q)
InterleaveIngestSave == \E w \in Workers : WorkerIngestSave(w)

NextInterleave ==
    \/ WorkersLoad
    \/ WorkersSave
    \/ InterleaveIngestLoad
    \/ InterleaveIngestSave

SpecInterleave == InitWorkers /\ [][NextInterleave]_vars

\* C20 as claimed: a single-creator ingestion for q that finishes leaves the
\* catalog and the play counts of every other creator, and every other
\* creator's record, as they were just before, and changes of q's record only
\* fetched_at, also when a view of another creator's post came in between.
C20_IngestionFrame ==
    [][\A w \in Workers :
          (workers[w].pc = "ingesting" /\ workers'[w].pc = "idle" /\ reply'.status = 200) =>
              LET q == workers[w].q
              IN  /\ \A u \in PostsKeys(posts) \ {q} : PostsGet(posts', u) = PostsGet(posts, u)
                  /\ \A u \in DOMAIN users \ {q} : u \in DOMAIN users' /\ users'[u] = users[u]
                  /\ q \in DOMAIN users =>
                         users'[q] = [users[q] EXCEPT !.fetched_at = now]]_vars

----------------------------------------------------------------------------
\* SpecReplace: single-creator requests for each view of the page and plays,
\* while the upstream changes among a creator with two pages, one that serves
\* more than MAX_ITEMS items, one whose first page is empty and one whose first
\* page is not a success.

LongPages == [k \in Cursors |-> IF k = 0 THEN MorePage(LongPage, MaxCursor) ELSE LastPage(LongPage)]
ReplaceFixtures ==
    {TwoPages, LongPages, [k \in Cursors |-> LastPage(0)], [k \in Cursors |-> ErrorResp]}

InitReplace == Fresh /\ upstream \in ReplaceFixtures

ReplaceIndex == \E q \in Creators, type \in IndexTypes : IndexOk(q, type)
ReplaceView == \E vid \in SpecPlayed : PlaysBelowCap(vid) /\ ApiView(vid)
ReplaceUpstream == \E fx \in ReplaceFixtures : UpstreamChange(fx)

NextReplace ==
    \/ ReplaceIndex
    \/ ReplaceView
    \/ ReplaceUpstream

SpecReplace == InitReplace /\ [][NextReplace]_vars

\* the creators of the posts of a list of videos (a content id of the listing
\* API names its creator)
CreatorsIn(videos) == {videos[i].aweme_id[1] : i \in 1..Len(videos)}

\* C21: after a completed single-creator ingestion of q, q's catalog is the
\* normalization of the items this run fetched (cut at MAX_ITEMS), in upstream
\* order, whatever it held before; when the first page is not a success or is
\* empty the catalog is the empty list, and q has no post in the latest view,
\* in the top view, in /api/latest or in /api/top.
C21_CatalogIsThisRun ==
    \A q \in Creators :
        (lastRun.q = q /\ lastRun.n >= 1) =>
            LET run == Fetched(q)
                kept == Truncate(run.all_posts)
            IN  /\ Catalog(q) = [i \in 1..Len(kept) |-> Normalize(kept[i])]
                /\ reply.aux = "" => reply.body = Catalog(q)
                /\ (run.calls = 1 /\ run.why \in {"error", "empty"}) =>
                       /\ Catalog(q) = <<>>
                       /\ reply.aux # "" => q \notin CreatorsIn(reply.body)
                       /\ q \notin CreatorsIn(IndexVideos(posts, q, "latest"))
                       /\ q \notin CreatorsIn(IndexVideos(posts, q, "top"))
                       /\ q \notin CreatorsIn(ApiLatest(posts, HD_URLS))
                       /\ \A limit \in 0..MaxLimit : q \notin CreatorsIn(ApiTop(posts, limit))

\* C21 witness: "a" had a played catalog (its first post is in HD_URLS, which
\* only an ingestion of "a" writes); a run whose first page is not a success
\* or is empty has replaced it by the empty list while "b" still shows in the
\* top view the request asked for
C21_Witness ==
    /\ lastRun.q = "a"
    /\ Fetched("a").calls = 1 /\ Fetched("a").why \in {"error", "empty"}
    /\ VideoId("a", 0, 1) \in DOMAIN HD_URLS
    /\ Catalog("a") = <<>>
    /\ reply.aux = "top" /\ CreatorsIn(reply.body) = {"b"}

----------------------------------------------------------------------------
\* SpecLive: multi-username requests run to their end.  The upstream changes
\* between requests among LiveFixtures: pages that pass MAX_ITEMS items, short
\* pages, an empty page, a page that is not a success, a call that raises, and
\* a listing that sets has_more on every page.  A handler that has started
\* keeps running (its code is synchronous and each listing call returns or
\* raises within timeout=10), hence the weak fairness of its steps.

LiveFixtures ==
    {LongPages, TwoPages, [k \in Cursors |-> LastPage(0)], [k \in Cursors |-> ErrorResp],
     [k \in Cursors |-> RaiseResp], [k \in Cursors |-> MorePage(ShortPage, k)]}
LiveQueries == {<<"a", "b">>, <<"b", "a">>}

InitLive == Fresh /\ upstream \in LiveFixtures

LiveRequest == \E usernames \in LiveQueries : BatchStart(usernames)
LiveUpstream == Idle /\ \E fx \in LiveFixtures : UpstreamChange(fx)

NextLive ==
    \/ LiveRequest
    \/ BatchRaise
    \/ BatchMore
    \/ BatchBreak
    \/ LiveUpstream

\* BatchBreak can take a step: its guard, and each of its steps changes batch
BreakEnabled ==
    /\ batch.pc = "fetch"
    /\ LET resp == upstream[batch.cursor]
       IN  resp.kind = "error" \/ (resp.kind = "ok" /\ (resp.n = 0 \/ ~resp.has_more))

\* weak fairness of the three steps of the handler; that of BatchBreak is
\* written out, WF_vars(BatchBreak) being []<>~ENABLED <<BatchBreak>>_vars \/
\* []<><<BatchBreak>>_vars
SpecLive ==
    /\ InitLive /\ [][NextLive]_vars
    /\ WF_vars(BatchRaise) /\ WF_vars(BatchMore)
    /\ ([]<>(~BreakEnabled) \/ []<><<BatchBreak>>_vars)

\* the listing, followed from cursor, returns within n calls a page that is
\* not a success, is empty, or has has_more false
RECURSIVE StopsWithin(_, _, _)
StopsWithin(fx, cursor, n) ==
    IF n = 0 THEN FALSE
    ELSE LET resp == fx[cursor]
         IN  IF resp.kind = "raise" THEN FALSE
             ELSE IF resp.kind = "error" \/ resp.n = 0 \/ ~resp.has_more THEN TRUE
             ELSE StopsWithin(fx, resp.cursor, n - 1)

\* a multi-username request is running and the upstream returns such a page
\* for the username being fetched and for each one still to come
Stopping ==
    /\ batch.pc = "fetch"
    /\ StopsWithin(upstream, batch.cursor, MaxBatchCalls - batch.calls)
    /\ Len(batch.usernames) > 1 => StopsWithin(upstream, 0, MaxBatchCalls)

\* the multi-username request has answered 200, users.json and
\* saved_user_urls.json saved
Persisted == Idle /\ reply.op = "batch" /\ reply.status = 200

\* the entries of uname for the items of all_posts
EntriesOf(uname, all_posts) == {Entry(uname, all_posts[i].video_id) : i \in 1..Len(all_posts)}

\* C22: a multi-username request for which the upstream returns, for each
\* username, a page that is not a success, is empty or has has_more false,
\* completes with both files saved; its loop is left for the next username or
\* for the save only on such a page, goes on at every other page however many
\* items it holds, and every item fetched, beyond MAX_ITEMS too, has its entry.
C22_BatchCompletes ==
    /\ Stopping ~> Persisted
    /\ [][batch.pc = "fetch" =>
            LET resp == upstream[batch.cursor]
                uname == Head(batch.usernames)
                stop == resp.kind = "error" \/ (resp.kind = "ok" /\ (resp.n = 0 \/ ~resp.has_more))
                fetched == IF resp.kind = "ok"
                           THEN batch.all_posts \o Videos(uname, batch.cursor, resp)
                           ELSE batch.all_posts
            IN  /\ (batch'.pc = "fetch" /\ batch'.usernames # batch.usernames) =>
                       /\ stop
                       /\ EntriesOf(uname, fetched) \subseteq Entries(batch'.saved)
                /\ (batch'.pc = "idle" /\ reply'.status = 200) =>
                       /\ stop
                       /\ users' = batch.users
                       /\ batch.touched \subseteq DOMAIN users'
                       /\ EntriesOf(uname, fetched) \subseteq Entries(saved_user_urls')
                       /\ Entries(batch.saved) \subseteq Entries(saved_user_urls')
                /\ (resp.kind = "ok" /\ resp.n > 0 /\ resp.has_more) =>
                       /\ batch'.usernames = batch.usernames
                       /\ batch'.all_posts = fetched]_vars

\* C22 witness: a completed multi-username request has saved more than
\* MAX_ITEMS entries of one username
C22_Witness ==
    /\ Persisted
    /\ Cardinality({i \in 1..Len(saved_user_urls) : saved_user_urls[i].username = "a"}) > MAX_ITEMS

====
